---- MODULE Spec2Model ----
(***************************************************************************)
(* A model of Translations/make_translation.py: the symbol index codec    *)
(* (get_bytes_from_font_index), the symbol allocation table builder       *)
(* (get_font_map_and_table / get_font_map_per_font) and the string table  *)
(* compactor (the suffix merging of                                        *)
(* get_translation_strings_and_indices_text).                              *)
(*                                                                         *)
(* Symbols are modelled by their code points (integers), byte strings by   *)
(* sequences of integers 0..255, Python dicts by functions, Python lists   *)
(* by sequences.  Each of the three algorithms has a specification of its  *)
(* own (SpecCodec, SpecBuild, SpecCompact), and so have the emission of    *)
(* the common text (get_translation_common_text, SpecRuns) and the glyph   *)
(* packer (get_cjk_glyph, SpecGlyph); the variables of the others stay at  *)
(* their idle values.                                                      *)
(***************************************************************************)
EXTENDS Integers, Sequences, FiniteSets, TLC

VARIABLES
  \* ---- codec driver
  cx_index,        \* the index handed to get_bytes_from_font_index
  cx_out,          \* what the call returned (or raised)
  cx_seen,         \* the byte codes returned for all smaller indices
  \* ---- allocation builder
  pc,              \* position in get_font_map_and_table
  input_list,      \* the text_list argument as passed in (never changed)
  text_list,       \* the local text_list (rebound at line 396)
  fonts,           \* the fonts argument
  font_tables,     \* font name -> symbols font_tables supplies (12 and 06)
  cjk_glyphs,      \* code points that have a glyph in the CJK BDF font
  bulk,            \* [n, font]: a run of n further symbols, all supplied by font
  pending_sym_set,
  font_i,          \* 1-based position of the for loop over fonts
  font12_maps,
  font06_maps,
  sym_lists,
  font12_map,
  font06_map,
  sym_list,
  symbol_map,
  error,           \* the exception that ended the build, or NoError
  \* ---- string table compactor
  cpc,             \* position in the suffix merging / table writing code
  str_table,
  symbol_conversion_table,
  backward_sorted_table,
  str_remapping,
  scan_i,          \* loop variable i of the remapping loop (0-based)
  str_offsets,
  offset,
  write_i,         \* loop variable i of the writing loop (0-based)
  blob,            \* the bytes of TranslationStringsData written so far
  \* ---- two runs of get_translation_common_text on the same arguments
  build_version,   \* the build_version argument of both runs
  tpc,             \* run -> position in get_translation_common_text
  translation_common_text,   \* run -> the lines written so far
  \* ---- glyph packer
  gpc,             \* position in get_cjk_glyph
  src_box,         \* glyph.get_bounding_box(): [left, bottom, w, h]
  data,            \* glyph.data: the rows, bottom-most first
  glyph_bytes      \* the bytes returned (bs)

codecVars == <<cx_index, cx_out, cx_seen>>
buildVars == <<pc, input_list, text_list, fonts, font_tables, cjk_glyphs, bulk,
               pending_sym_set, font_i, font12_maps, font06_maps, sym_lists,
               font12_map, font06_map, sym_list, symbol_map, error>>
compactVars == <<cpc, str_table, symbol_conversion_table, backward_sorted_table,
                 str_remapping, scan_i, str_offsets, offset, write_i, blob>>
runVars == <<build_version, tpc, translation_common_text>>
glyphVars == <<gpc, src_box, data, glyph_bytes>>
vars == <<codecVars, buildVars, compactVars, runVars, glyphVars>>

(***************************************************************************)
(* Generic helpers                                                         *)
(***************************************************************************)
Range(s) == {s[k] : k \in 1..Len(s)}

\* Python's None where a bitmap is expected.
None == <<>>

\* The byte codes of a list of symbols, concatenated.
RECURSIVE FlattenSeq(_)
FlattenSeq(ss) == IF ss = <<>> THEN <<>> ELSE Head(ss) \o FlattenSeq(Tail(ss))

Reverse(s) == [k \in 1..Len(s) |-> s[Len(s) + 1 - k]]

\* bytes.startswith
StartsWith(s, p) == Len(p) <= Len(s) /\ SubSeq(s, 1, Len(p)) = p

(***************************************************************************)
(* Symbol index codec                                                      *)
(***************************************************************************)
Raised(msg) == [ok |-> FALSE, bytes |-> <<>>, err |-> msg]
Returned(bs) == [ok |-> TRUE, bytes |-> bs, err |-> ""]

\* A faulty variant: the value byte is not shifted past 0x00.
get_bytes_from_font_index_noshift(index) ==
  IF index < 0 THEN Raised("index must be positive")
  ELSE LET page == (index + 14) \div 255 IN
       IF page > 15 THEN Raised("page value out of range")
       ELSE IF page = 0 THEN Returned(<<index>>)
       ELSE LET leader == page + 240
                value  == (index + 14) % 255
            IN  IF leader > 255 \/ value > 255
                THEN Raised("value is out of range")
                ELSE Returned(<<leader, value>>)

\* A faulty variant: the last page is refused as well.
get_bytes_from_font_index_pagecap(index) ==
  IF index < 0 THEN Raised("index must be positive")
  ELSE LET page == (index + 14) \div 255 IN
       IF page >= 15 THEN Raised("page value out of range")
       ELSE IF page = 0 THEN Returned(<<index>>)
       ELSE LET leader == page + 240
                value  == ((index + 14) % 255) + 1
            IN  IF leader > 255 \/ value > 255
                THEN Raised("value is out of range")
                ELSE Returned(<<leader, value>>)

\* A faulty variant: the one-byte codes are moved past the two reserved ones.
get_bytes_from_font_index_plus2(index) ==
  IF index < 0 THEN Raised("index must be positive")
  ELSE LET page == (index + 14) \div 255 IN
       IF page > 15 THEN Raised("page value out of range")
       ELSE IF page = 0 THEN Returned(<<index + 2>>)
       ELSE LET leader == page + 240
                value  == ((index + 14) % 255) + 1
            IN  IF leader > 255 \/ value > 255
                THEN Raised("value is out of range")
                ELSE Returned(<<leader, value>>)

\* get_bytes_from_font_index: 0x0E = 14, 0xFF = 255, 0x0F = 15, 0xF0 = 240.
get_bytes_from_font_index(index) ==
  IF index < 0 THEN Raised("index must be positive")
  ELSE LET page == (index + 14) \div 255 IN
       IF page > 15 THEN Raised("page value out of range")
       ELSE IF page = 0 THEN Returned(<<index>>)
       ELSE LET leader == page + 240
                value  == ((index + 14) % 255) + 1
            IN  IF leader > 255 \/ value > 255
                THEN Raised("value is out of range")
                ELSE Returned(<<leader, value>>)

\* The largest index the codec encodes: "0xFF 0xFF => 15 * 0xFF - 15 + 255".
MaxFontIndex == 15 * 255 - 15 + 255

\* How far past MaxFontIndex the codec driver goes.
Overshoot == 3


(***************************************************************************)
(* Symbol allocation table builder                                         *)
(***************************************************************************)
NAME_ASCII_BASIC == "ascii_basic"
NAME_CJK == "cjk"
NAME_LATIN_EXTENDED == "latin_extended"
FontNames == {NAME_ASCII_BASIC, NAME_LATIN_EXTENDED, NAME_CJK}

\* "\n" and the digits "0".."9", as code points.
Newline == 10
forced_first_symbols == <<48, 49, 50, 51, 52, 53, 54, 55, 56, 57>>
Digits == Range(forced_first_symbols)

\* (0x10 * 0xFF - 15) - 2, the most symbols the builder accepts.
MaxSymbols == (16 * 255 - 15) - 2

NoError == [kind |-> "none", syms |-> {}, count |-> 0]
ValueError(what, n) == [kind |-> what, syms |-> {}, count |-> n]
KeyError(what, ss) == [kind |-> what, syms |-> ss, count |-> 0]

EmptyDict == <<>>
DictSet(d, k, v) == [x \in (DOMAIN d) \cup {k} |-> IF x = k THEN v ELSE d[x]]
\* dict.update
DictUpdate(d, e) ==
  LET de == DOMAIN e
  IN  [x \in (DOMAIN d) \cup de |-> IF x \in de THEN e[x] ELSE d[x]]

\* The run of further symbols of the input: code points from 30001 on.
BulkSyms(n) == [k \in 1..n |-> 30000 + k]
IsBulk(sym) == sym > 30000

\* font12[sym] / font06[sym] of a font table raise KeyError or both succeed.
TableHas(font, sym) ==
  \/ sym \in font_tables[font]
  \/ IsBulk(sym) /\ bulk.font = font

\* cjk_font()[ord(sym)]: bdflib's Font.__getitem__ raises KeyError for a code
\* point that has no glyph.
CjkHas(sym) ==
  \/ sym \in cjk_glyphs
  \/ IsBulk(sym) /\ bulk.font = NAME_CJK

\* The bitmaps: a glyph is named by the font it comes from.
Glyph12(font, sym) == <<font, sym, 12>>
Glyph06(font, sym) == <<font, sym, 6>>
get_cjk_glyph(sym) == Glyph12(NAME_CJK, sym)

\* A faulty variant: the digits are appended instead of being put first.
ForceFirst_last(tl) ==
  SelectSeq(tl, LAMBDA x : x \notin Digits) \o forced_first_symbols
\* text_list = forced_first_symbols + [x for x in text_list if x not in ...]
ForceFirst(tl) ==
  forced_first_symbols \o SelectSeq(tl, LAMBDA x : x \notin Digits)

\* The symbols one pass of "for sym in text_list" over a font table resolves.
ResolvedByTable(font, tl, pending) ==
  SelectSeq(tl, LAMBDA s : s \in pending /\ TableHas(font, s))

\* The pending symbols of text_list, in order, the CJK font has no glyph for.
MissingInCjk(tl, pending) ==
  SelectSeq(tl, LAMBDA s : s \in pending /\ ~CjkHas(s))

\* font12_map.update(font12_maps[font]) for font in fonts
RECURSIVE UpdateAll(_, _, _)
UpdateAll(fs, maps, acc) ==
  IF fs = <<>> THEN acc
  ELSE UpdateAll(Tail(fs), maps, DictUpdate(acc, maps[Head(fs)]))

\* A faulty variant: large-only symbols are put first.
FinalOrder_swapped(tl, f06) ==
  SelectSeq(tl, LAMBDA s : f06[s] = None) \o SelectSeq(tl, LAMBDA s : f06[s] # None)
\* sym_list = sym_list_both_fonts + sym_list_large_only
FinalOrder(tl, f06) ==
  SelectSeq(tl, LAMBDA s : f06[s] # None) \o SelectSeq(tl, LAMBDA s : f06[s] = None)

\* A faulty variant: the codes start at 1, the newline's code.
FirstIndex_one == 2 - 1
\* index = 2  # start at 2, as 0= null terminator,1 = new line
FirstIndex == 2

\* symbol_map = {"\n": bytes([1])}, then for index, sym in enumerate(sym_list,
\* index): symbol_map[sym] = get_bytes_from_font_index(index).  The dict is
\* the list of its (key, value) pairs in insertion order.
SymbolMapOf(sl) ==
  <<<<Newline, <<1>>>>>> \o
  [k \in 1..Len(sl) |-> <<sl[k], get_bytes_from_font_index(FirstIndex + k - 1).bytes>>]

\* symbol_map[sym]
SymbolCode(map, sym) == map[CHOOSE k \in 1..Len(map) : map[k][1] = sym][2]
SymbolKeys(map) == {map[k][1] : k \in 1..Len(map)}
SymbolCodes(map) == {map[k][2] : k \in 1..Len(map)}

\* The positions of sym_list whose index the codec refuses.
RefusedPositions(sl) ==
  {k \in 1..Len(sl) : ~get_bytes_from_font_index(FirstIndex + k - 1).ok}


\* A faulty variant: there is no capacity check.
TooMany_never(n) == FALSE
\* A faulty variant: the capacity check is off by one.
TooMany_off(n) == n > MaxSymbols + 1
\* if total_symbol_count > (0x10 * 0xFF - 15) - 2
TooMany(n) == n > MaxSymbols

(***************************************************************************)
(* Idle values: what the variables of an algorithm hold while another      *)
(* algorithm's specification runs.                                         *)
(***************************************************************************)
CodecIdle ==
  /\ cx_index = 0
  /\ cx_out = Raised("idle")
  /\ cx_seen = {}

BuildIdle ==
  /\ pc = "idle"
  /\ input_list = <<>>
  /\ text_list = <<>>
  /\ fonts = <<>>
  /\ font_tables = EmptyDict
  /\ cjk_glyphs = {}
  /\ bulk = [n |-> 0, font |-> "none"]
  /\ pending_sym_set = {}
  /\ font_i = 1
  /\ font12_maps = EmptyDict
  /\ font06_maps = EmptyDict
  /\ sym_lists = EmptyDict
  /\ font12_map = EmptyDict
  /\ font06_map = EmptyDict
  /\ sym_list = <<>>
  /\ symbol_map = <<>>
  /\ error = NoError

CompactIdle ==
  /\ cpc = "idle"
  /\ str_table = <<>>
  /\ symbol_conversion_table = <<>>
  /\ backward_sorted_table = <<>>
  /\ str_remapping = <<>>
  /\ scan_i = 0
  /\ str_offsets = <<>>
  /\ offset = 0
  /\ write_i = 0
  /\ blob = <<>>

RunsIdle ==
  /\ build_version = <<>>
  /\ tpc = <<>>
  /\ translation_common_text = <<>>

GlyphIdle ==
  /\ gpc = "idle"
  /\ src_box = [left |-> 0, bottom |-> 0, w |-> 0, h |-> 0]
  /\ data = <<>>
  /\ glyph_bytes = <<>>

(***************************************************************************)
(* The codec driver: get_bytes_from_font_index is called for -1, 0, 1, ... *)
(* up to Overshoot indices past the largest one it encodes.                *)
(***************************************************************************)
CodecInit ==
  /\ cx_index = -1
  /\ cx_out = get_bytes_from_font_index(-1)
  /\ cx_seen = {}
  /\ BuildIdle
  /\ CompactIdle
  /\ RunsIdle
  /\ GlyphIdle

EncodeNext ==
  /\ cx_index < MaxFontIndex + Overshoot
  /\ cx_index' = cx_index + 1
  /\ cx_out' = get_bytes_from_font_index(cx_index + 1)
  /\ cx_seen' = IF cx_out.ok THEN cx_seen \cup {cx_out.bytes} ELSE cx_seen
  /\ UNCHANGED <<buildVars, compactVars, runVars, glyphVars>>

CodecNext == EncodeNext

SpecCodec == CodecInit /\ [][CodecNext]_vars

(***************************************************************************)
(* The codec called for one index by itself: any index from -1 up to       *)
(* Overshoot past the largest one it encodes, then the indices after it.   *)
(***************************************************************************)
CodecIndices == (-1)..(MaxFontIndex + Overshoot)

CodecAtInit ==
  /\ cx_index \in CodecIndices
  /\ cx_out = get_bytes_from_font_index(cx_index)
  /\ cx_seen = {}
  /\ BuildIdle
  /\ CompactIdle
  /\ RunsIdle
  /\ GlyphIdle

EncodeFollowing ==
  /\ cx_index < MaxFontIndex + Overshoot
  /\ cx_index' = cx_index + 1
  /\ cx_out' = get_bytes_from_font_index(cx_index + 1)
  /\ UNCHANGED <<cx_seen, buildVars, compactVars, runVars, glyphVars>>

CodecAtNext == EncodeFollowing

SpecCodecAt == CodecAtInit /\ [][CodecAtNext]_vars


(***************************************************************************)
(* The allocation builder: get_font_map_and_table(text_list, fonts).       *)
(***************************************************************************)
\* Bounds of the inputs.
MaxHead == 2
MaxFonts == 3
\* A symbol count under which two-byte codes are handed out.
BulkTotal == 245

\* "5", "a", a-umlaut and a CJK ideograph.
HeadSymbols == {53, 97, 228, 20013}
SeqsUpTo(S, n) == UNION {[1..m -> S] : m \in 0..n}
FontLists == UNION {[1..m -> FontNames] : m \in 1..MaxFonts}

\* The tables of font_tables.py: ascii_basic holds the digits (the ASCII set)
\* and may hold "a"; latin_extended holds nothing or "a" and a-umlaut.
AsciiBasicTables == {Digits \cup A : A \in {{}, {97}}}
LatinExtendedTables == {{}, {97, 228}}
\* The glyphs of the CJK BDF font.
CjkGlyphSets == {{}, {20013}, {228, 20013}}

BuildStart ==
  /\ pc = "start"
  /\ text_list = input_list
  /\ pending_sym_set = {}
  /\ font_i = 1
  /\ font12_maps = EmptyDict
  /\ font06_maps = EmptyDict
  /\ sym_lists = EmptyDict
  /\ font12_map = EmptyDict
  /\ font06_map = EmptyDict
  /\ sym_list = <<>>
  /\ symbol_map = <<>>
  /\ error = NoError

\* Few symbols, every combination of font list and font tables.
SmallInput ==
  /\ input_list \in SeqsUpTo(HeadSymbols, MaxHead)
  /\ fonts \in FontLists
  /\ \E a \in AsciiBasicTables, l \in LatinExtendedTables :
       font_tables = [f \in {NAME_ASCII_BASIC, NAME_LATIN_EXTENDED} |->
                        IF f = NAME_ASCII_BASIC THEN a ELSE l]
  /\ cjk_glyphs \in CjkGlyphSets
  /\ bulk = [n |-> 0, font |-> "none"]

\* Many symbols: a run that fills the list up to BulkTotal, MaxSymbols,
\* MaxSymbols + 1 or MaxSymbols + 2 symbols (the digits included), all from
\* one font.
LargeInput ==
  /\ \E head \in {<<>>, <<20013>>},
        total \in {BulkTotal, MaxSymbols, MaxSymbols + 1, MaxSymbols + 2},
        bf \in {NAME_ASCII_BASIC, NAME_CJK} :
       /\ bulk = [n |-> total - Len(forced_first_symbols) - Len(head), font |-> bf]
       /\ input_list = head \o BulkSyms(total - Len(forced_first_symbols) - Len(head))
  /\ fonts \in FontLists
  /\ font_tables = [f \in {NAME_ASCII_BASIC, NAME_LATIN_EXTENDED} |->
                      IF f = NAME_ASCII_BASIC THEN Digits ELSE {}]
  /\ cjk_glyphs = {20013}

BuildInit ==
  /\ SmallInput \/ LargeInput
  /\ BuildStart
  /\ CodecIdle
  /\ CompactIdle
  /\ RunsIdle
  /\ GlyphIdle

inputVars == <<input_list, fonts, font_tables, cjk_glyphs, bulk>>

Fail(e) ==
  /\ pc' = "failed"
  /\ error' = e

\* lines 391-398: the digits are put first.
ForceDigitsFirst ==
  /\ pc = "start"
  /\ text_list' = ForceFirst(text_list)
  /\ pc' = "check_dup"
  /\ UNCHANGED <<codecVars, compactVars, runVars, glyphVars, inputVars, pending_sym_set, font_i, font12_maps, font06_maps,
                 sym_lists, font12_map, font06_map, sym_list, symbol_map, error>>

\* lines 313-315
CheckDuplicates ==
  /\ pc = "check_dup"
  /\ pending_sym_set' = Range(text_list)
  /\ IF Cardinality(Range(text_list)) # Len(text_list)
     THEN Fail(ValueError("duplicated symbols", 0))
     ELSE pc' = "check_baseline" /\ UNCHANGED error
  /\ UNCHANGED <<codecVars, compactVars, runVars, glyphVars, inputVars, text_list, font_i, font12_maps, font06_maps,
                 sym_lists, font12_map, font06_map, sym_list, symbol_map>>

\* lines 317-320
CheckBaseline ==
  /\ pc = "check_baseline"
  /\ IF fonts[1] # NAME_ASCII_BASIC
     THEN Fail(ValueError("first font not ascii_basic", 0))
     ELSE pc' = "check_capacity" /\ UNCHANGED error
  /\ UNCHANGED <<codecVars, compactVars, runVars, glyphVars, inputVars, text_list, pending_sym_set, font_i, font12_maps,
                 font06_maps, sym_lists, font12_map, font06_map, sym_list,
                 symbol_map>>

\* lines 322-329
CheckCapacity ==
  /\ pc = "check_capacity"
  /\ IF TooMany(Len(text_list))
     THEN Fail(ValueError("too many used symbols", Len(text_list)))
     ELSE pc' = "fonts" /\ UNCHANGED error
  /\ UNCHANGED <<codecVars, compactVars, runVars, glyphVars, inputVars, text_list, pending_sym_set, font_i, font12_maps,
                 font06_maps, sym_lists, font12_map, font06_map, sym_list,
                 symbol_map>>

\* lines 337-349: a font met when nothing is pending; its maps are (re)set
\* to empty all the same.
ConsultFontUnused ==
  /\ pc = "fonts"
  /\ font_i <= Len(fonts)
  /\ pending_sym_set = {}
  /\ font12_maps' = DictSet(font12_maps, fonts[font_i], EmptyDict)
  /\ font06_maps' = DictSet(font06_maps, fonts[font_i], EmptyDict)
  /\ sym_lists' = DictSet(sym_lists, fonts[font_i], <<>>)
  /\ font_i' = font_i + 1
  /\ UNCHANGED <<codecVars, compactVars, runVars, glyphVars, inputVars, pc, text_list, pending_sym_set, font12_map,
                 font06_map, sym_list, symbol_map, error>>

\* lines 337-344, 351-352, 359-366, 373-376: the CJK font.  get_cjk_glyph
\* raises KeyError on the first pending symbol the font has no glyph for;
\* the locals are dead then and are left as they were.
ConsultFontCjk ==
  /\ pc = "fonts"
  /\ font_i <= Len(fonts)
  /\ pending_sym_set # {}
  /\ fonts[font_i] = NAME_CJK
  /\ LET missing == MissingInCjk(text_list, pending_sym_set)
         got == SelectSeq(text_list, LAMBDA s : s \in pending_sym_set)
     IN  IF missing # <<>>
         THEN /\ Fail(KeyError("glyph KeyError", {Head(missing)}))
              /\ UNCHANGED <<font12_maps, font06_maps, sym_lists,
                             pending_sym_set, font_i>>
         ELSE /\ font12_maps' = DictSet(font12_maps, NAME_CJK,
                                  [s \in Range(got) |-> get_cjk_glyph(s)])
              /\ font06_maps' = DictSet(font06_maps, NAME_CJK,
                                  [s \in Range(got) |-> None])
              /\ sym_lists' = DictSet(sym_lists, NAME_CJK, got)
              /\ pending_sym_set' = pending_sym_set \ Range(got)
              /\ font_i' = font_i + 1
              /\ UNCHANGED <<pc, error>>
  /\ UNCHANGED <<codecVars, compactVars, runVars, glyphVars, inputVars, text_list, font12_map, font06_map, sym_list,
                 symbol_map>>

\* lines 337-344, 353-357, 359-361, 367-376: a font of font_tables.
ConsultFontTable ==
  /\ pc = "fonts"
  /\ font_i <= Len(fonts)
  /\ pending_sym_set # {}
  /\ fonts[font_i] # NAME_CJK
  /\ LET font == fonts[font_i]
         got == ResolvedByTable(font, text_list, pending_sym_set)
     IN  /\ font12_maps' = DictSet(font12_maps, font,
                             [s \in Range(got) |-> Glyph12(font, s)])
         /\ font06_maps' = DictSet(font06_maps, font,
                             [s \in Range(got) |-> Glyph06(font, s)])
         /\ sym_lists' = DictSet(sym_lists, font, got)
         /\ pending_sym_set' = pending_sym_set \ Range(got)
  /\ font_i' = font_i + 1
  /\ UNCHANGED <<codecVars, compactVars, runVars, glyphVars, inputVars, pc, text_list, font12_map, font06_map, sym_list,
                 symbol_map, error>>

\* lines 380-383: the end of get_font_map_per_font.
FinishFonts ==
  /\ pc = "fonts"
  /\ font_i > Len(fonts)
  /\ IF pending_sym_set # {}
     THEN Fail(KeyError("Symbols not found in specified fonts", pending_sym_set))
     ELSE pc' = "merge" /\ UNCHANGED error
  /\ UNCHANGED <<codecVars, compactVars, runVars, glyphVars, inputVars, text_list, pending_sym_set, font_i, font12_maps,
                 font06_maps, sym_lists, font12_map, font06_map, sym_list,
                 symbol_map>>

\* lines 404-421: the full font maps and the final order.  font06_map[sym]
\* raises KeyError for a symbol no per-font map holds any more.
MergeAndOrder ==
  /\ pc = "merge"
  /\ font12_map' = UpdateAll(fonts, font12_maps, EmptyDict)
  /\ font06_map' = UpdateAll(fonts, font06_maps, EmptyDict)
  /\ IF Range(text_list) \subseteq DOMAIN font06_map'
     THEN /\ sym_list' = FinalOrder(text_list, font06_map')
          /\ pc' = "assign"
          /\ UNCHANGED error
     ELSE /\ Fail(KeyError("font06_map KeyError",
                           {Head(SelectSeq(text_list,
                                   LAMBDA s : s \notin DOMAIN font06_map'))}))
          /\ UNCHANGED sym_list
  /\ UNCHANGED <<codecVars, compactVars, runVars, glyphVars, inputVars, text_list, pending_sym_set,
                 font_i, font12_maps, font06_maps, sym_lists, symbol_map>>

\* lines 423-428: the byte codes.
AssignSymbolBytes ==
  /\ pc = "assign"
  /\ IF Newline \in Range(sym_list)
     THEN Fail(ValueError("AssertionError", 0)) /\ UNCHANGED symbol_map
     ELSE IF RefusedPositions(sym_list) # {}
     THEN Fail(ValueError("codec ValueError", 0)) /\ UNCHANGED symbol_map
     ELSE /\ symbol_map' = SymbolMapOf(sym_list)
          /\ pc' = "done"
          /\ UNCHANGED error
  /\ UNCHANGED <<codecVars, compactVars, runVars, glyphVars, inputVars, text_list, pending_sym_set, font_i, font12_maps,
                 font06_maps, sym_lists, font12_map, font06_map, sym_list>>

BuildNext ==
  \/ ForceDigitsFirst
  \/ CheckDuplicates
  \/ CheckBaseline
  \/ CheckCapacity
  \/ ConsultFontUnused
  \/ ConsultFontCjk
  \/ ConsultFontTable
  \/ FinishFonts
  \/ MergeAndOrder
  \/ AssignSymbolBytes

SpecBuild == BuildInit /\ [][BuildNext]_vars


(***************************************************************************)
(* The string table compactor: the suffix merging and the writing of the   *)
(* string table in get_translation_strings_and_indices_text.               *)
(***************************************************************************)
\* Bounds of the inputs: the number of strings and of characters in all of
\* them together.
MaxStrings == 3
MaxChars == 4

\* The two characters backslash, "n" of a text, taken as one item, and the
\* two characters backslash, "r".
EscapedNewline == -110
EscapedReturn == -114

\* text.replace("\\r", "").replace("\\n", "\n")
ReplaceEscapes(text) ==
  LET kept == SelectSeq(text, LAMBDA c : c # EscapedReturn)
  IN  [k \in 1..Len(kept) |-> IF kept[k] = EscapedNewline THEN Newline ELSE kept[k]]

\* convert_string_bytes; a symbol the table lacks ends the program (sys.exit).
Convertible(table, text) == Range(ReplaceEscapes(text)) \subseteq SymbolKeys(table)
convert_string_bytes(table, text) ==
  LET syms == ReplaceEscapes(text)
  IN  FlattenSeq([k \in 1..Len(syms) |-> SymbolCode(table, syms[k])])

\* bytes < bytes: lexicographic, a proper prefix first.
RECURSIVE BytesLess(_, _)
BytesLess(a, b) ==
  IF b = <<>> THEN FALSE
  ELSE IF a = <<>> THEN TRUE
  ELSE IF Head(a) # Head(b) THEN Head(a) < Head(b)
  ELSE BytesLess(Tail(a), Tail(b))

\* A faulty variant: an entry is put before the entries of equal key (not stable).
RECURSIVE InsertSorted_unstable(_, _)
InsertSorted_unstable(sorted, e) ==
  IF sorted = <<>> THEN <<e>>
  ELSE IF ~BytesLess(sorted[1][3], e[3]) THEN <<e>> \o sorted
  ELSE <<sorted[1]>> \o InsertSorted_unstable(Tail(sorted), e)

\* sorted(..., key=lambda x: x[2]) is stable: an entry goes after the entries
\* of smaller or equal key.
RECURSIVE InsertSorted(_, _)
InsertSorted(sorted, e) ==
  IF sorted = <<>> THEN <<e>>
  ELSE IF BytesLess(e[3], sorted[1][3]) THEN <<e>> \o sorted
  ELSE <<sorted[1]>> \o InsertSorted(Tail(sorted), e)

RECURSIVE SortedByKey(_)
SortedByKey(entries) ==
  IF entries = <<>> THEN <<>>
  ELSE InsertSorted(SortedByKey(SubSeq(entries, 1, Len(entries) - 1)),
                    entries[Len(entries)])

\* A faulty variant: the encodings are not reversed.
BackwardEntries_forward(table, strs) ==
  [k \in 1..Len(strs) |-> <<k - 1, strs[k], convert_string_bytes(table, strs[k])>>]
\* The entries (i, s, bytes(reversed(convert_string_bytes(table, s)))), i
\* counted from 0.
BackwardEntries(table, strs) ==
  [k \in 1..Len(strs) |-> <<k - 1, strs[k], Reverse(convert_string_bytes(table, strs[k]))>>]

IndexError == -1
\* A faulty variant: an "if" in place of the "while".
ScanFrom_once(table, converted, j) ==
  IF j + 1 >= Len(table) THEN IndexError
  ELSE IF StartsWith(table[j + 2][3], converted) THEN j + 1
  ELSE j
\* A faulty variant: the loop never advances.
ScanFrom_none(table, converted, j) == j
\* The result of the while loop of lines 780-782 started at j: the last j, or
\* IndexError when backward_sorted_table[j + 1] is past the end of the list.
RECURSIVE ScanFrom(_, _, _)
ScanFrom(table, converted, j) ==
  IF j + 1 >= Len(table) THEN IndexError
  ELSE IF StartsWith(table[j + 2][3], converted) THEN ScanFrom(table, converted, j + 1)
  ELSE j

\* None, and RemappedTranslationItem(str_index, str_start_offset).
NoRemap == [str_index |-> -1, str_start_offset |-> 0]
\* A faulty variant: the start offset is the length of the absorbed string.
RemappedTranslationItem_own(rep, converted) ==
  [str_index |-> rep[1], str_start_offset |-> Len(converted)]
RemappedTranslationItem(rep, converted) ==
  [str_index |-> rep[1], str_start_offset |-> Len(rep[3]) - Len(converted)]

\* [i] + [j for j, r in enumerate(str_remapping) if r and r.str_index == i]
StrUsedBy(remapping, i) ==
  {i} \cup {j \in 0..(Len(remapping) - 1) : remapping[j + 1].str_index = i}

\* The strings of the input: every split of up to MaxChars characters into up
\* to MaxStrings strings.  "0" has a one-byte code, the symbol 30230 a
\* two-byte code that ends in the newline's byte.
CompactAlphabet == {48, 30230, EscapedNewline}
RECURSIVE SumTo(_, _)
SumTo(lens, n) == IF n = 0 THEN 0 ELSE lens[n] + SumTo(lens, n - 1)
LengthVectors ==
  {lens \in UNION {[1..n -> 0..MaxChars] : n \in 0..MaxStrings} :
      SumTo(lens, Len(lens)) <= MaxChars}
SplitBy(flat, lens) ==
  [k \in 1..Len(lens) |-> SubSeq(flat, SumTo(lens, k - 1) + 1, SumTo(lens, k))]

\* The entries of a byte-code map of the builder for the symbols of the
\* strings: the map of the digits followed by BulkTotal - 10 more symbols.
BuilderTable ==
  SelectSeq(SymbolMapOf(ForceFirst(BulkSyms(BulkTotal - Len(forced_first_symbols)))),
            LAMBDA e : e[1] \in {Newline, 48, 30230})

\* The strings "ab", "cdab", "xyz", and a byte-code map in which every
\* letter has its ASCII byte as its code.
ScenarioStrings == <<<<97, 98>>, <<99, 100, 97, 98>>, <<120, 121, 122>>>>
ScenarioTable ==
  <<<<Newline, <<1>>>>>> \o
  [k \in 1..7 |-> LET c == <<97, 98, 99, 100, 120, 121, 122>>[k] IN <<c, <<c>>>>]

CompactInit ==
  /\ \/ /\ \E lens \in LengthVectors :
            \E flat \in [1..SumTo(lens, Len(lens)) -> CompactAlphabet] :
               str_table = SplitBy(flat, lens)
        /\ symbol_conversion_table = BuilderTable
     \/ /\ str_table = ScenarioStrings
        /\ symbol_conversion_table = ScenarioTable
  /\ cpc = "sort"
  /\ backward_sorted_table = <<>>
  /\ str_remapping = <<>>
  /\ scan_i = 0
  /\ str_offsets = <<>>
  /\ offset = 0
  /\ write_i = 0
  /\ blob = <<>>
  /\ CodecIdle
  /\ BuildIdle
  /\ RunsIdle
  /\ GlyphIdle

\* lines 771-778
SortBackward ==
  /\ cpc = "sort"
  /\ IF \A k \in 1..Len(str_table) : Convertible(symbol_conversion_table, str_table[k])
     THEN /\ backward_sorted_table' =
                SortedByKey(BackwardEntries(symbol_conversion_table, str_table))
          /\ str_remapping' = [k \in 1..Len(str_table) |-> NoRemap]
          /\ cpc' = "scan"
     ELSE /\ cpc' = "exit"
          /\ UNCHANGED <<backward_sorted_table, str_remapping>>
  /\ scan_i' = 0
  /\ UNCHANGED <<codecVars, buildVars, runVars, glyphVars, str_table, symbol_conversion_table,
                 str_offsets, offset, write_i, blob>>

\* lines 779-787: one turn of the loop over backward_sorted_table[:-1].
ScanEntry ==
  /\ cpc = "scan"
  /\ scan_i < Len(backward_sorted_table) - 1
  /\ LET entry == backward_sorted_table[scan_i + 1]
         j == ScanFrom(backward_sorted_table, entry[3], scan_i)
     IN  IF j = IndexError
         THEN /\ cpc' = "raised"
              /\ UNCHANGED <<str_remapping, scan_i>>
         ELSE /\ str_remapping' =
                   IF j # scan_i
                   THEN [str_remapping EXCEPT ![entry[1] + 1] =
                           RemappedTranslationItem(backward_sorted_table[j + 1], entry[3])]
                   ELSE str_remapping
              /\ scan_i' = scan_i + 1
              /\ UNCHANGED cpc
  /\ UNCHANGED <<codecVars, buildVars, runVars, glyphVars, str_table, symbol_conversion_table,
                 backward_sorted_table, str_offsets, offset, write_i, blob>>

\* lines 790-793: the loop is over, the writing starts.
StartWriting ==
  /\ cpc = "scan"
  /\ scan_i >= Len(backward_sorted_table) - 1
  /\ str_offsets' = [k \in 1..Len(str_table) |-> -1]
  /\ offset' = 0
  /\ write_i' = 0
  /\ cpc' = "write"
  /\ UNCHANGED <<codecVars, buildVars, runVars, glyphVars, str_table, symbol_conversion_table,
                 backward_sorted_table, str_remapping, scan_i, blob>>

\* lines 794-796: a remapped string is not written.
SkipRemapped ==
  /\ cpc = "write"
  /\ write_i < Len(str_table)
  /\ str_remapping[write_i + 1] # NoRemap
  /\ write_i' = write_i + 1
  /\ UNCHANGED <<codecVars, buildVars, runVars, glyphVars, cpc, str_table, symbol_conversion_table,
                 backward_sorted_table, str_remapping, scan_i, str_offsets,
                 offset, blob>>

\* lines 797-831: a string is written, with the "\0" that ends it (written
\* before the next string, or by the compiler after the last one), and the
\* strings that use it get their offsets.
WriteString ==
  /\ cpc = "write"
  /\ write_i < Len(str_table)
  /\ str_remapping[write_i + 1] = NoRemap
  /\ LET converted_bytes ==
           convert_string_bytes(symbol_conversion_table, str_table[write_i + 1])
         used == StrUsedBy(str_remapping, write_i)
     IN  /\ str_offsets' =
               [k \in 1..Len(str_offsets) |->
                  IF k - 1 = write_i THEN offset
                  ELSE IF k - 1 \in used
                       THEN offset + str_remapping[k].str_start_offset
                       ELSE str_offsets[k]]
         /\ blob' = blob \o converted_bytes \o <<0>>
         /\ offset' = offset + Len(converted_bytes) + 1
  /\ write_i' = write_i + 1
  /\ UNCHANGED <<codecVars, buildVars, runVars, glyphVars, cpc, str_table, symbol_conversion_table,
                 backward_sorted_table, str_remapping, scan_i>>

\* lines 832-836: the table is written; get_offset asserts an offset >= 0
\* for every string.
FinishWriting ==
  /\ cpc = "write"
  /\ write_i >= Len(str_table)
  /\ cpc' = IF \A k \in 1..Len(str_offsets) : str_offsets[k] >= 0
            THEN "done" ELSE "raised"
  /\ UNCHANGED <<codecVars, buildVars, runVars, glyphVars, str_table, symbol_conversion_table,
                 backward_sorted_table, str_remapping, scan_i, str_offsets,
                 offset, write_i, blob>>

CompactNext ==
  \/ SortBackward
  \/ ScanEntry
  \/ StartWriting
  \/ SkipRemapped
  \/ WriteString
  \/ FinishWriting

SpecCompact == CompactInit /\ [][CompactNext]_vars

(***************************************************************************)
(* The common text: get_translation_common_text(defs, table, build_version)*)
(* run twice on the same arguments.  A line of the text is the pair of the *)
(* name it defines and the string it is written from (the string is also   *)
(* written as it is, in the comment that ends the line).                   *)
(***************************************************************************)
\* Bound of the days the clock may show.
MaxDays == 3

Runs == {1, 2}
\* "v2" and "v3".
Versions == {<<118, 50>>, <<118, 51>>}
\* What datetime.today() may return: a day of October or November 2026.
Dates == [day : 1..MaxDays, month : {10, 11}, year : {2026}]

\* "%d" / "%m" / "%y": two decimal digits, zero-padded.
TwoDigits(n) == <<48 + ((n % 100) \div 10), 48 + (n % 10)>>
\* strftime("%d-%m-%y")
strftime(today) ==
  TwoDigits(today.day) \o <<45>> \o TwoDigits(today.month) \o <<45>> \o TwoDigits(today.year)

get_constants(version) ==
  <<<<"SymbolPlus", <<43>>>>,
     <<"SymbolMinus", <<45>>>>,
     <<"SymbolSpace", <<32>>>>,
     <<"SymbolDot", <<46>>>>,
     <<"SymbolDegC", <<67>>>>,
     <<"SymbolDegF", <<70>>>>,
     <<"SymbolMinutes", <<77>>>>,
     <<"SymbolSeconds", <<83>>>>,
     <<"SymbolWatts", <<87>>>>,
     <<"SymbolVolts", <<86>>>>,
     <<"SymbolDC", <<68, 67>>>>,
     <<"SymbolCellCount", <<83>>>>,
     <<"SymbolVersionNumber", version>>>>

\* get_debug_menu(): the first entry is the date of the day.
get_debug_menu(today) ==
  <<strftime(today),
     <<72, 87, 32, 71, 32>>,
     <<72, 87, 32, 77, 32>>,
     <<72, 87, 32, 80, 32>>,
     <<84, 105, 109, 101, 32>>,
     <<77, 111, 118, 101, 32>>,
     <<82, 84, 105, 112, 32>>,
     <<67, 84, 105, 112, 32>>,
     <<67, 72, 97, 110, 32>>,
     <<86, 105, 110, 32, 32>>,
     <<80, 67, 66, 32, 32>>,
     <<80, 87, 82, 32, 32>>,
     <<77, 97, 120, 32, 32>>>>

RunsInit ==
  /\ build_version \in Versions
  /\ tpc = [r \in Runs |-> "start"]
  /\ translation_common_text = [r \in Runs |-> <<>>]
  /\ CodecIdle
  /\ BuildIdle
  /\ CompactIdle
  /\ GlyphIdle

\* lines 629-635: the firmware constants.
WriteConstants(r) ==
  /\ tpc[r] = "start"
  /\ translation_common_text' =
        [translation_common_text EXCEPT ![r] = get_constants(build_version)]
  /\ tpc' = [tpc EXCEPT ![r] = "debug"]
  /\ UNCHANGED <<codecVars, buildVars, compactVars, glyphVars, build_version>>

\* lines 637-645: the debug menu; get_debug_menu reads the clock.
WriteDebugMenu(r) ==
  /\ tpc[r] = "debug"
  /\ \E today \in Dates :
       translation_common_text' =
          [translation_common_text EXCEPT ![r] =
             @ \o [k \in 1..Len(get_debug_menu(today)) |->
                     <<"DebugMenu", get_debug_menu(today)[k]>>]]
  /\ tpc' = [tpc EXCEPT ![r] = "done"]
  /\ UNCHANGED <<codecVars, buildVars, compactVars, glyphVars, build_version>>

RunsNext ==
  \/ \E r \in Runs : WriteConstants(r)
  \/ \E r \in Runs : WriteDebugMenu(r)

SpecRuns == RunsInit /\ [][RunsNext]_vars


(***************************************************************************)
(* The glyph packer: get_cjk_glyph, from the glyph of the BDF font (its    *)
(* bounding box and its rows) to the 24 bytes of the 12x16 bitmap.         *)
(***************************************************************************)
\* Bound of the width and the height of the bounding box.
MaxBox == 2

dst_w == 12
dst_h == 16

\* n & (1 << k)
BitAt(n, k) == (n \div (2 ^ k)) % 2 = 1

\* A faulty variant: the baseline is not raised by 3 pixels.
get_cell_noanchor(x, y) ==
  LET adj_x == x - src_box.left
      adj_y == y - (dst_h - src_box.h - src_box.bottom)
  IN  IF adj_x < 0 \/ adj_x >= src_box.w THEN FALSE
      ELSE IF adj_y < 0 \/ adj_y >= src_box.h THEN FALSE
      ELSE BitAt(data[(src_box.h - adj_y - 1) + 1], src_box.w - adj_x - 1)
\* get_cell(x, y), (x, y) counted from the top-left corner; data[k] of the
\* code is data[k + 1] here.
get_cell(x, y) ==
  LET adj_x == x - src_box.left
      adj_y == y - (dst_h - src_box.h - src_box.bottom - 3)
  IN  IF adj_x < 0 \/ adj_x >= src_box.w THEN FALSE
      ELSE IF adj_y < 0 \/ adj_y >= src_box.h THEN FALSE
      ELSE BitAt(data[(src_box.h - adj_y - 1) + 1], src_box.w - adj_x - 1)

\* for r in range(8): if get_cell(c, r + 8 * block): b |= 0x01 << r
RECURSIVE ColumnBits(_, _, _)
ColumnBits(block, c, r) ==
  IF r = 8 THEN 0
  ELSE (IF get_cell(c, r + 8 * block) THEN 2 ^ r ELSE 0) + ColumnBits(block, c, r + 1)

\* for block in range(2): for c in range(dst_w): bs.append(b)
PackedBytes ==
  [k \in 1..(2 * dst_w) |-> ColumnBits((k - 1) \div dst_w, (k - 1) % dst_w, 0)]

\* Boxes left of, across and right of the cell, and below, across and above it.
BoxLefts == {-3, -1, 0, 11, 12}
BoxBottoms == {-6, -3, -2, 0, 12, 13, 14}

GlyphInit ==
  /\ gpc = "start"
  /\ \E l \in BoxLefts, b \in BoxBottoms, w \in 0..MaxBox, h \in 0..MaxBox :
       /\ src_box = [left |-> l, bottom |-> b, w |-> w, h |-> h]
       /\ data \in [1..h -> 0..((2 ^ w) - 1)]
  /\ glyph_bytes = <<>>
  /\ CodecIdle
  /\ BuildIdle
  /\ CompactIdle
  /\ RunsIdle

\* lines 197-237
PackGlyph ==
  /\ gpc = "start"
  /\ glyph_bytes' = PackedBytes
  /\ gpc' = "done"
  /\ UNCHANGED <<codecVars, buildVars, compactVars, runVars, src_box, data>>

GlyphNext == PackGlyph

SpecGlyph == GlyphInit /\ [][GlyphNext]_vars

(***************************************************************************)
(* Properties of the codec                                                 *)
(***************************************************************************)
\* The decoder the firmware side implies: a first byte in 0xF1..0xFF leads a
\* two-byte code, any other byte is a code of its own.
IsLeader(b) == b \in 241..255
decode(bs) ==
  IF IsLeader(bs[1]) THEN (bs[1] - 240) * 255 + (bs[2] - 1) - 14 ELSE bs[1]
CodeLen(bs) == IF IsLeader(bs[1]) THEN 2 ELSE 1

\* C3: for every index 0 <= o <= MaxFontIndex the codec returns a code, the
\* code differs from the code of every smaller index (encode is injective),
\* its length is the one its first byte announces, and decode gives o back.
C3_CodecBijection ==
  (0 <= cx_index /\ cx_index <= MaxFontIndex) =>
     /\ cx_out.ok
     /\ cx_out.bytes \notin cx_seen
     /\ Len(cx_out.bytes) = CodeLen(cx_out.bytes)
     /\ decode(cx_out.bytes) = cx_index

\* The codec has encoded index 496 as the two-byte code 0xF2 0x01, with the
\* codes of all 496 smaller indices on record.
C3_Witness ==
  /\ cx_index = 496
  /\ cx_out = Returned(<<242, 1>>)
  /\ Cardinality(cx_seen) = 496

(***************************************************************************)
(* Properties of the allocation builder                                    *)
(***************************************************************************)
Finished == pc \in {"done", "failed"}

\* supports(symbol) of a font source.
Supplies(f, sym) == IF f = NAME_CJK THEN CjkHas(sym) ELSE TableHas(f, sym)
SuppliedBySome(sym) == \E k \in 1..Len(fonts) : Supplies(fonts[k], sym)
FirstSupplier(sym) ==
  fonts[CHOOSE k \in 1..Len(fonts) :
          Supplies(fonts[k], sym) /\ \A j \in 1..(k - 1) : ~Supplies(fonts[j], sym)]
\* The required symbols: the candidate list with the digits put first.
Required == Range(ForceFirst(input_list))
Unsupplied == {sym \in Required : ~SuppliedBySome(sym)}

\* The input meets the preconditions of build: no symbol twice, the baseline
\* font first, no more symbols than the codec has codes for.
Accepted ==
  /\ Cardinality(Required) = Len(ForceFirst(input_list))
  /\ fonts[1] = NAME_ASCII_BASIC
  /\ Cardinality(Required) <= MaxSymbols
\* No font is listed twice.
DistinctFonts == Cardinality(Range(fonts)) = Len(fonts)

\* C4: in the returned byte-code map no two symbols share a code (the
\* newline's reserved code 0x01 included), every code is one byte or a leader
\* 0xF1..0xFF with a value byte, and no code holds a 0x00 byte.
C4_CodesDistinctNoZero ==
  pc = "done" =>
     /\ symbol_map[1] = <<Newline, <<1>>>>
     /\ Cardinality(SymbolCodes(symbol_map)) = Len(symbol_map)
     /\ Cardinality(SymbolKeys(symbol_map)) = Len(symbol_map)
     /\ SymbolKeys(symbol_map) = Range(sym_list) \cup {Newline}
     /\ \A k \in 2..Len(symbol_map) :
          LET code == symbol_map[k][2]
          IN  /\ code # <<1>>
              /\ Len(code) \in {1, 2}
              /\ Len(code) = CodeLen(code)
              /\ \A n \in 1..Len(code) : code[n] \in 1..255

\* A build of the largest accepted symbol count has returned: the last code
\* is a two-byte code under the leader 0xFF.
C4_Witness ==
  /\ pc = "done"
  /\ Len(sym_list) = 4063
  /\ symbol_map[Len(symbol_map)][2] = <<255, 254>>

\* C5 as stated: whenever the input is accepted, the fonts of the list differ
\* and every required symbol is supplied by some listed font, build returns,
\* and the bitmap maps hold every required symbol with the bitmaps of the first
\* font in the list that supplies it.
C5_FirstSupplierResolvesAll ==
  (Finished /\ Accepted /\ DistinctFonts /\ Unsupplied = {}) =>
     /\ pc = "done"
     /\ DOMAIN font12_map = Required
     /\ DOMAIN font06_map = Required
     /\ \A sym \in Required :
          /\ font12_map[sym] = Glyph12(FirstSupplier(sym), sym)
          /\ font06_map[sym] = IF FirstSupplier(sym) = NAME_CJK
                               THEN None
                               ELSE Glyph06(FirstSupplier(sym), sym)

BothSizes(sym) == font06_map[sym] # None
LargeOnly(sym) == font06_map[sym] = None
C8_LargeOnlyLast ==
  pc = "done" =>
     LET nboth == Len(SelectSeq(sym_list, BothSizes))
     IN  /\ Len(sym_list) = Len(text_list)
         /\ Range(sym_list) = Range(text_list)
         /\ \A k \in 1..Len(sym_list) : (k <= nboth) <=> BothSizes(sym_list[k])
         /\ SelectSeq(sym_list, BothSizes) = SelectSeq(text_list, BothSizes)
         /\ SelectSeq(sym_list, LargeOnly) = SelectSeq(text_list, LargeOnly)

\* A build has returned a final order in which a both-size symbol was moved
\* ahead of a large-only symbol that preceded it in the candidate list.
C8_Witness ==
  /\ pc = "done"
  /\ input_list = <<20013, 97>>
  /\ sym_list[11] = 97
  /\ sym_list[12] = 20013
  /\ LargeOnly(20013)
  /\ BothSizes(97)

\* C9: for an input that passes the two validation checks, build fails with
\* the capacity error when the symbol count is above 4063, before any font is
\* consulted and with no result; at 4063 symbols or fewer the capacity error
\* is never raised.
CapacityError == error.kind = "too many used symbols"
C9_CapacityError ==
  /\ CapacityError =>
        /\ pc = "failed"
        /\ Len(text_list) > 4063
        /\ error.count = Len(text_list)
        /\ font_i = 1
        /\ font12_maps = EmptyDict /\ font06_maps = EmptyDict
        /\ sym_lists = EmptyDict
        /\ sym_list = <<>> /\ symbol_map = <<>>
  /\ (pc \in {"fonts", "merge", "assign", "done"}) => Len(text_list) <= 4063
  /\ (pc = "failed" /\ Len(text_list) > 4063
        /\ Cardinality(Range(text_list)) = Len(text_list)
        /\ fonts[1] = NAME_ASCII_BASIC) => CapacityError

\* Build has failed with the capacity error on 4064 symbols.
C9_Witness ==
  /\ pc = "failed"
  /\ CapacityError
  /\ error.count = 4064
  /\ Len(text_list) = 4064

\* C10 as stated: whenever an accepted input leaves a required symbol that no
\* listed font supplies, build fails with the lookup error, and the error
\* carries all those symbols.
C10_LookupErrorBatched ==
  (Finished /\ Accepted /\ Unsupplied # {}) =>
     /\ pc = "failed"
     /\ error = KeyError("Symbols not found in specified fonts", Unsupplied)


(***************************************************************************)
(* Properties of the string table compactor                                *)
(***************************************************************************)
\* encode_all(s): the byte codes of the symbols of a string, concatenated.
EncodeAll(text) == convert_string_bytes(symbol_conversion_table, text)

\* The bytes of the blob from offset off (counted from 0) up to, but not
\* including, the next 0x00 byte.
TerminatorsFrom(off) == {k \in (off + 1)..Len(blob) : blob[k] = 0}
ReadCString(off) ==
  LET end == CHOOSE k \in TerminatorsFrom(off) : \A m \in TerminatorsFrom(off) : k <= m
  IN  SubSeq(blob, off + 1, end - 1)

IsSuffix(a, b) == Len(a) <= Len(b) /\ SubSeq(b, Len(b) - Len(a) + 1, Len(b)) = a
IsProperSuffix(a, b) == Len(a) < Len(b) /\ IsSuffix(a, b)
NaiveLength == SumTo([k \in 1..Len(str_table) |-> Len(EncodeAll(str_table[k])) + 1],
                     Len(str_table))

\* C1: when the compaction is done, for every string k (written, absorbed or
\* a duplicate) the offset lies in the blob, a 0x00 byte follows it, and the
\* bytes from the offset up to that byte are the string's byte codes.
C1_OffsetsReadBack ==
  cpc = "done" =>
     \A k \in 1..Len(str_table) :
        /\ str_offsets[k] \in 0..(Len(blob) - 1)
        /\ TerminatorsFrom(str_offsets[k]) # {}
        /\ ReadCString(str_offsets[k]) = EncodeAll(str_table[k])

\* The compaction is done for the strings "\n" (escaped), the two-byte symbol
\* and "0": the first is read inside the code of the second, at offset 1.
C1_Witness ==
  /\ cpc = "done"
  /\ str_table = <<<<EscapedNewline>>, <<30230>>, <<48>>>>
  /\ blob = <<241, 1, 0, 2, 0>>
  /\ str_offsets = <<1, 0, 3>>

\* C2 as stated: the compaction never raises; when it is done every string
\* has an offset >= 0, and a string whose encoding is a suffix of no other
\* string's encoding is not remapped and is written at its own offset.
C2_CompactionCompletes ==
  /\ cpc # "raised"
  /\ cpc = "done" =>
       \A k \in 1..Len(str_table) :
          /\ str_offsets[k] >= 0
          /\ (\A m \in 1..Len(str_table) :
                 m # k => ~IsSuffix(EncodeAll(str_table[k]), EncodeAll(str_table[m])))
             => /\ str_remapping[k] = NoRemap
                /\ SubSeq(blob, str_offsets[k] + 1,
                          str_offsets[k] + Len(EncodeAll(str_table[k])) + 1)
                     = EncodeAll(str_table[k]) \o <<0>>

\* C7: when the compaction is done the blob is no longer than the sum of the
\* encoded lengths plus one terminator each, and it is shorter when the
\* encoding of some string is a proper suffix of the encoding of another.
C7_BlobNoLongerThanNaive ==
  cpc = "done" =>
     /\ Len(blob) <= NaiveLength
     /\ (\E k, m \in 1..Len(str_table) :
            IsProperSuffix(EncodeAll(str_table[k]), EncodeAll(str_table[m])))
        => Len(blob) < NaiveLength

\* The compaction is done for "\n", "0\n" and "0": the first is a proper
\* suffix of the second, and the blob holds 5 bytes instead of 7.
C7_Witness ==
  /\ cpc = "done"
  /\ str_table = <<<<EscapedNewline>>, <<48, EscapedNewline>>, <<48>>>>
  /\ Len(blob) = 5
  /\ NaiveLength = 7


(***************************************************************************)
(* Properties of the codec's range                                         *)
(***************************************************************************)
Page(o) == (o + 14) \div 255
\* The ordinals up to n the codec encodes, the reserved 0 and 1 left out.
Allocatable(n) == {o \in 0..n : get_bytes_from_font_index(o).ok} \ {0, 1}

\* C11 as stated: a non-negative ordinal is refused, with the range error,
\* exactly when (ordinal + 14) div 255 > 15, and the codec encodes 4063
\* ordinals besides the reserved 0 and 1.
C11_RangeErrorCap4063 ==
  cx_index >= 0 =>
     /\ cx_out.ok <=> Page(cx_index) <= 15
     /\ ~cx_out.ok => /\ cx_out.err = "page value out of range"
                      /\ Cardinality(Allocatable(cx_index)) = 4063

\* C11 amended: the same, but the codec encodes 4064 ordinals besides the
\* reserved 0 and 1 (the ordinals 2..4065).
C11_RangeErrorCap4064 ==
  cx_index >= 0 =>
     /\ cx_out.ok <=> Page(cx_index) <= 15
     /\ ~cx_out.ok => /\ cx_out.err = "page value out of range"
                      /\ Allocatable(cx_index) = 2..MaxFontIndex
                      /\ Cardinality(Allocatable(cx_index)) = 4064

\* The codec has refused 4066, the first ordinal of page 16.
C11_Witness ==
  /\ cx_index = 4066
  /\ Page(cx_index) = 16
  /\ cx_out = Raised("page value out of range")

\* C12 as stated: encode(0) is the single byte 0x02.
C12_ZeroIsTwo == cx_index = 0 => cx_out = Returned(<<2>>)

\* C12 amended: an ordinal of page 0 is encoded as the single byte of its own
\* value, so encode(0) is 0x00, encode(1) is 0x01 and encode(2), the first
\* ordinal the builder assigns, is 0x02.
C12_PageZeroIsIdentity ==
  (cx_index >= 0 /\ Page(cx_index) = 0) => cx_out = Returned(<<cx_index>>)

\* The codec has encoded ordinal 0, as the byte 0x00.
C12_Witness ==
  /\ cx_index = 0
  /\ cx_out = Returned(<<0>>)


(***************************************************************************)
(* The scenario "ab", "cdab", "xyz"                                        *)
(***************************************************************************)
Scenario ==
  /\ str_table = ScenarioStrings
  /\ symbol_conversion_table = ScenarioTable

\* C13 as stated: for "ab", "cdab", "xyz" the blob is "xyz\0cdab\0" (or the
\* two strings in the other order) and the offsets are [5, 2, 0].
C13_ScenarioOffsets520 ==
  (Scenario /\ cpc = "done") =>
     /\ blob \in {<<120, 121, 122, 0, 99, 100, 97, 98, 0>>,
                  <<99, 100, 97, 98, 0, 120, 121, 122, 0>>}
     /\ str_offsets = <<5, 2, 0>>

\* C13 amended: for "ab", "cdab", "xyz" the compaction completes, the blob is
\* "cdab\0xyz\0" (the strings that are written keep the order of the list),
\* the offsets are [2, 0, 5], and "ab" is not written but points at the
\* bytes "ab\0" inside "cdab".
C13_ScenarioOffsets205 ==
  Scenario =>
     /\ cpc # "raised"
     /\ cpc = "done" =>
          /\ blob = <<99, 100, 97, 98, 0, 120, 121, 122, 0>>
          /\ str_offsets = <<2, 0, 5>>
          /\ str_remapping[1] = [str_index |-> 1, str_start_offset |-> 2]
          /\ SubSeq(blob, str_offsets[1] + 1, str_offsets[1] + 3) = <<97, 98, 0>>

\* The compaction of "ab", "cdab", "xyz" is done and two strings are written.
C13_Witness ==
  /\ Scenario
  /\ cpc = "done"
  /\ Len(blob) = 9
  /\ str_remapping[1] # NoRemap


(***************************************************************************)
(* Reproducible output                                                     *)
(***************************************************************************)
\* C14 as stated: two runs on the same arguments that have both written the
\* common text (the constants and the debug menu) have written the same text.
C14_RunsIdentical ==
  (tpc[1] = "done" /\ tpc[2] = "done") =>
     translation_common_text[1] = translation_common_text[2]


(***************************************************************************)
(* Properties of the glyph packer                                          *)
(***************************************************************************)
\* The target cell (x, y) maps into the bounding box: the glyph is anchored
\* 3 pixels above the bottom of the cell.
InBox(x, y) ==
  /\ (x - src_box.left) \in 0..(src_box.w - 1)
  /\ (y - (16 - src_box.h - src_box.bottom - 3)) \in 0..(src_box.h - 1)
FullyOutside == \A x \in 0..11, y \in 0..15 : ~InBox(x, y)
\* The bit of the cell (x, y) in the packed bytes: block y div 8, column x,
\* bit y mod 8.
CellLit(x, y) == BitAt(glyph_bytes[(y \div 8) * 12 + x + 1], y % 8)

\* C15: the packer returns 24 bytes; a cell that does not map into the
\* bounding box is unlit; so when no cell maps into the box all 24 bytes are
\* zero, whatever the rows hold.
C15_OutsideBoxIsZero ==
  gpc = "done" =>
     /\ Len(glyph_bytes) = 24
     /\ \A k \in 1..Len(glyph_bytes) : glyph_bytes[k] \in 0..255
     /\ \A x \in 0..11, y \in 0..15 : ~InBox(x, y) => ~CellLit(x, y)
     /\ FullyOutside => \A k \in 1..Len(glyph_bytes) : glyph_bytes[k] = 0

\* A glyph of 2x2 lit pixels whose box lies above the cell has been packed
\* to 24 zero bytes.
C15_Witness ==
  /\ gpc = "done"
  /\ src_box = [left |-> 0, bottom |-> 13, w |-> 2, h |-> 2]
  /\ data = <<3, 3>>
  /\ FullyOutside
  /\ glyph_bytes = [k \in 1..24 |-> 0]


(***************************************************************************)
(* Properties of the suffix scan                                           *)
(***************************************************************************)
\* The reversed encoding at sorted position p (counted from 0), and the
\* positions after i whose reversed encoding starts with the one at i.
KeyAt(p) == backward_sorted_table[p + 1][3]
Following(i) ==
  {j \in (i + 1)..(Len(backward_sorted_table) - 1) : StartsWith(KeyAt(j), KeyAt(i))}
LargestFollowing(i) == CHOOSE j \in Following(i) : \A m \in Following(i) : m <= j
\* What the scan is to record for the string at sorted position i.
ChoiceAt(i) ==
  IF Following(i) = {} THEN NoRemap
  ELSE [str_index |-> backward_sorted_table[LargestFollowing(i) + 1][1],
        str_start_offset |-> Len(KeyAt(LargestFollowing(i))) - Len(KeyAt(i))]
\* The sorted positions the scan has dealt with: those before scan_i while
\* the loop runs, scan_i too when the loop has raised there, all of them
\* once the writing has started.
ScanRaised == cpc = "raised" /\ Len(str_offsets) # Len(str_table)
ScannedPositions ==
  IF cpc = "scan" THEN 0..(scan_i - 1)
  ELSE IF ScanRaised THEN 0..scan_i
  ELSE IF cpc \in {"write", "done"} THEN 0..(Len(backward_sorted_table) - 1)
  ELSE {}

\* C16 as stated: for every sorted position i the scan has dealt with, the
\* string there is remapped exactly when a later position holds an encoding
\* that ends with its encoding, to the string at the largest such position j,
\* with the start offset len(encoding_j) - len(encoding_i).
C16_LargestFollowingChosen ==
  \A i \in ScannedPositions :
     str_remapping[backward_sorted_table[i + 1][1] + 1] = ChoiceAt(i)

C18_CodecErrorUnreachable ==
  /\ error.kind # "codec ValueError"
  /\ pc \in {"assign", "done"} =>
       /\ Len(sym_list) <= 4063
       /\ RefusedPositions(sym_list) = {}
  /\ pc = "done" =>
       \A k \in 2..Len(symbol_map) :
          LET o == FirstIndex + k - 2
              code == symbol_map[k][2]
          IN  IF Page(o) = 0 THEN code = <<o>>
              ELSE /\ Page(o) \in 1..15
                   /\ Len(code) = 2
                   /\ code[1] = 240 + Page(o)
                   /\ code[1] \in 241..255
                   /\ code[2] \in 1..255

\* A build of 4063 symbols has returned; the symbol of ordinal 241 has the
\* first two-byte code and the symbol of the last ordinal, 4064, the code
\* 0xFF 0xFE.
C18_Witness ==
  /\ pc = "done"
  /\ Len(sym_list) = 4063
  /\ symbol_map[241][2] = <<241, 1>>
  /\ symbol_map[4064][2] = <<255, 254>>
  /\ error = NoError

====
